---- MODULE Spec2Model ----
(***************************************************************************)
(* Model of lib/pakkero/Obfuscation.go: the source obfuscation passes      *)
(* (ObfuscateFuncVars, ObfuscateStrings, GenerateRandomAntiDebug) and the  *)
(* binary scrubbers (StripUPXHeaders, StripFile).                          *)
(*                                                                         *)
(* A Go string is a sequence of one-character strings; a generated         *)
(* typosquat name (128 runes of the O-lookalike alphabet) is one atom,     *)
(* written "<N1>", "<N2>", ... .                                           *)
(***************************************************************************)
EXTENDS Integers, Sequences, FiniteSets, TLC

VARIABLES
    pc,             \* position of the running function
    input,          \* the string being rewritten (parameter/local `input`)
    orig,           \* the argument the function was called with
    words,          \* local `words` (ObfuscateFuncVars, ObfuscateStrings) / `removeStrings` (StripFile)
    idx,            \* loop index of the running range loop
    renamed,        \* history: <<token, generated name>> per ReplaceAll of ObfuscateFuncVars
    fresh,          \* history: the rawTokens the running ObfuscateStrings pass registered
    fedBack,        \* history: the running pass was given the previous pass's output
    Secrets,        \* the package-level Secrets map: rawToken -> <<plaintext, accessorName>>
    importSection,  \* local `importSection` of ObfuscateStrings
    body,           \* local `body` of ObfuscateStrings
    funcString,     \* local `funcString` of ObfuscateStrings
    todo,           \* keys of Secrets the range loop has still to visit
    output,         \* the value returned by the running function
    pass,           \* number of ObfuscateStrings calls started in this process
    lines,          \* local `lines` of GenerateRandomAntiDebug
    file,           \* content of `infile` on disk
    sedCalls,       \* history: header indices for which sed was invoked
    result          \* the boolean returned by StripUPXHeaders / StripFile

vars == <<pc, input, orig, words, idx, renamed, fresh, fedBack, Secrets,
          importSection, body, funcString, todo, output, pass, lines, file,
          sedCalls, result>>

----------------------------------------------------------------------------
(* Bounds of the model *)
MaxChunks == 4

----------------------------------------------------------------------------
(* Go strings *)

\* A string constant as a sequence of its characters.
Str(s) == [i \in 1..Len(s) |-> SubSeq(s, i, i)]

NL == "\n"

RECURSIVE Flatten(_)
Flatten(ss) == IF ss = <<>> THEN <<>> ELSE Head(ss) \o Flatten(Tail(ss))

\* All sequences of at most n elements of S.
SeqsUpTo(S, n) == UNION {[1..k -> S] : k \in 0..n}

HasPrefixAt(s, p, i) ==
    /\ i >= 1
    /\ i + Len(p) - 1 <= Len(s)
    /\ \A j \in 1..Len(p) : s[i + j - 1] = p[j]

\* strings.Contains
Contains(s, p) == \E i \in 1..(Len(s) + 1) : HasPrefixAt(s, p, i)

\* strings.Index, 1-based; 0 when absent (Go: -1)
Index(s, p) ==
    IF Contains(s, p)
    THEN CHOOSE i \in 1..(Len(s) + 1) :
            /\ HasPrefixAt(s, p, i)
            /\ \A j \in 1..(i - 1) : ~HasPrefixAt(s, p, j)
    ELSE 0

RECURSIVE ReplaceFrom(_, _, _, _)
ReplaceFrom(s, old, new, i) ==
    IF i > Len(s) THEN <<>>
    ELSE IF HasPrefixAt(s, old, i)
         THEN new \o ReplaceFrom(s, old, new, i + Len(old))
         ELSE <<s[i]>> \o ReplaceFrom(s, old, new, i + 1)

\* A bug variant: only the first occurrence is replaced (strings.Replace n = 1).
ReplaceFirstOnly(s, old, new) ==
    IF old = <<>> \/ ~Contains(s, old) THEN s
    ELSE LET i == Index(s, old)
         IN SubSeq(s, 1, i - 1) \o new \o SubSeq(s, i + Len(old), Len(s))

\* strings.ReplaceAll: the non-overlapping occurrences, left to right.
\* With an empty `old` Go inserts `new` before every rune and at the end.
ReplaceAll(s, old, new) ==
    IF old = <<>>
    THEN Flatten([i \in 1..Len(s) |-> new \o <<s[i]>>]) \o new
    ELSE IF ~Contains(s, old) THEN s ELSE ReplaceFrom(s, old, new, 1)

\* Unique keeps the first occurrence of every entry, in order.
Unique(ss) ==
    LET first(i) == \A j \in 1..(i - 1) : ss[j] # ss[i]
        kept == SelectSeq([i \in 1..Len(ss) |-> i], first)
    IN [k \in 1..Len(kept) |-> ss[kept[k]]]

ReverseStringArray(ss) == [i \in 1..Len(ss) |-> ss[Len(ss) + 1 - i]]

Range(f) == {f[i] : i \in DOMAIN f}

----------------------------------------------------------------------------
(* GenerateTyposquatName *)

\* The names one call can return; two calls may return the same name.
Names == {"<N1>", "<N2>"}

GenerateTyposquatName == Names

----------------------------------------------------------------------------
(* ObfuscateFuncVars *)

Lower == Str("abcdefghijklmnopqrstuvwxyz")
Upper == Str("ABCDEFGHIJKLMNOPQRSTUVWXYZ")
Digits == Str("0123456789")

\* the class [a-zA-Z0-9_], which is also \w of the \b assertion
IsWordChar(c) == c \in Range(Lower) \cup Range(Upper) \cup Range(Digits) \cup {"_"}

\* \b before position i, where s[i] is a word character
BoundaryBefore(s, i) == i = 1 \/ ~IsWordChar(s[i - 1])

RECURSIVE WordRunEnd(_, _)
\* last position of the run of word characters that holds position i
WordRunEnd(s, i) ==
    IF i < Len(s) /\ IsWordChar(s[i + 1]) THEN WordRunEnd(s, i + 1) ELSE i

\* `\bob[a-zA-Z0-9_]+` matches at i
TagMatchAt(s, i) ==
    /\ HasPrefixAt(s, <<"o", "b">>, i)
    /\ BoundaryBefore(s, i)
    /\ i + 2 <= Len(s)
    /\ IsWordChar(s[i + 2])

RECURSIVE FindTaggedFrom(_, _)
FindTaggedFrom(s, i) ==
    IF i > Len(s) THEN <<>>
    ELSE IF TagMatchAt(s, i)
         THEN LET e == WordRunEnd(s, i + 2)
              IN <<SubSeq(s, i, e)>> \o FindTaggedFrom(s, e + 1)
         ELSE FindTaggedFrom(s, i + 1)

\* regex.FindAllString(input, -1)
FindAllTagged(s) == FindTaggedFrom(s, 1)

\* lines 291-293: find, reverse, deduplicate
TaggedWords(s) == Unique(ReverseStringArray(FindAllTagged(s)))

SourceChunks == {Str("obF"), Str("obFB"), Str(" "), Str("x")}

Sources == {Flatten(cs) : cs \in SeqsUpTo(SourceChunks, MaxChunks)}

Idle ==
    /\ words = <<>> /\ idx = 0 /\ renamed = <<>>
    /\ fresh = {} /\ fedBack = FALSE
    /\ Secrets = <<>> /\ importSection = <<>> /\ body = <<>>
    /\ funcString = <<>> /\ todo = {} /\ output = <<>> /\ pass = 0
    /\ lines = <<>> /\ file = <<>> /\ sedCalls = <<>> /\ result = TRUE

InitFuncVars ==
    /\ pc = "fv_call"
    /\ input \in Sources
    /\ orig = input
    /\ Idle

FV_Find ==
    /\ pc = "fv_call"
    /\ words' = TaggedWords(input)
    /\ idx' = 1
    /\ pc' = "fv_loop"
    /\ UNCHANGED <<input, orig, renamed, fresh, fedBack, Secrets, importSection,
                   body, funcString, todo, output, pass, lines, file, sedCalls,
                   result>>

FV_Replace ==
    /\ pc = "fv_loop"
    /\ idx <= Len(words)
    /\ \E n \in GenerateTyposquatName :
          /\ input' = ReplaceAll(input, words[idx], <<n>>)
          /\ renamed' = Append(renamed, <<words[idx], n>>)
    /\ idx' = idx + 1
    /\ UNCHANGED <<pc, orig, words, fresh, fedBack, Secrets, importSection, body,
                   funcString, todo, output, pass, lines, file, sedCalls, result>>

FV_Return ==
    /\ pc = "fv_loop"
    /\ idx > Len(words)
    /\ output' = input
    /\ pc' = "fv_done"
    /\ UNCHANGED <<input, orig, words, idx, renamed, fresh, fedBack, Secrets,
                   importSection, body, funcString, todo, pass, lines, file,
                   sedCalls, result>>

NextFuncVars == FV_Find \/ FV_Replace \/ FV_Return

SpecFuncVars == InitFuncVars /\ [][NextFuncVars]_vars

----------------------------------------------------------------------------
(* Claims about ObfuscateFuncVars *)

StrictPrefix(a, b) == Len(a) < Len(b) /\ SubSeq(b, 1, Len(a)) = a

\* the name generated for token t
NameOf(t) == (CHOOSE i \in 1..Len(renamed) : renamed[i][1] = t)

RECURSIVE RenameFrom(_, _)
\* the source with every matched token replaced in full by its own name
RenameFrom(s, i) ==
    IF i > Len(s) THEN <<>>
    ELSE IF TagMatchAt(s, i)
         THEN LET e == WordRunEnd(s, i + 2)
              IN <<renamed[NameOf(SubSeq(s, i, e))][2]>> \o RenameFrom(s, e + 1)
         ELSE <<s[i]>> \o RenameFrom(s, i + 1)

HasPrefixPair(s) ==
    \E a, b \in Range(FindAllTagged(s)) : StrictPrefix(a, b)

\* C1: when the source holds two tagged tokens one of which is a strict
\* prefix of the other, the returned text holds no occurrence of either token
\* and every occurrence of each token is replaced in full by the one name
\* generated for that token.
C1_PrefixPairRenamedInFull ==
    (pc = "fv_done" /\ HasPrefixPair(orig)) =>
        /\ \A t \in Range(FindAllTagged(orig)) : ~Contains(output, t)
        /\ output = RenameFrom(orig, 1)

\* C7: the tokens are deduplicated and then taken in the reverse of their
\* discovery order, and a token that extends another one is always replaced
\* before the token it extends.
C7_LongerReplacedFirst ==
    /\ pc # "fv_call" => words = ReverseStringArray(Unique(FindAllTagged(orig)))
    /\ \A i, j \in 1..Len(renamed) :
          StrictPrefix(renamed[i][1], renamed[j][1]) => j < i

----------------------------------------------------------------------------
(* ObfuscateStrings *)

MaxPasses == 2         \* calls of ObfuscateStrings in one process (SpecStrings)
MaxPassChunks == 2     \* chunks of a body that goes through several passes
MaxBodyChunks == 3     \* chunks of a body that goes through one pass

DQ == "\""
SQ == "'"
\* the backquote delimiter; TLA+ strings cannot hold the backquote, "^" stands for it
BT == "^"
BS == "\\"

\* strings.ToUpper of one ASCII character
ToUpper(c) ==
    IF \E i \in 1..Len(Lower) : Lower[i] = c
    THEN Upper[CHOOSE i \in 1..Len(Lower) : Lower[i] = c]
    ELSE c

\* isSeparator of strings.Title: letters, digits and underscore are not
\* separators, every other ASCII character is.
IsSeparator(c) == Len(c) = 1 /\ ~IsWordChar(c)

\* strings.Title: the first letter of every word is upper-cased.
Title(s) ==
    [i \in 1..Len(s) |->
        IF i = 1 \/ IsSeparator(s[i - 1]) THEN ToUpper(s[i]) ELSE s[i]]

\* GenerateBitshift(item): the expression that rebuilds one byte.
GenerateBitshift(c) == "~" \o c

StrJoin(ls, sep) ==
    Flatten([i \in 1..Len(ls) |-> IF i = 1 THEN ls[i] ELSE sep \o ls[i]])

\* lines 207-220
GenerateStringFunc(txt, function) ==
    <<"func ", function,
      "() string { EAX := uint8(obUnsafe.Sizeof(true));return string(",
      NL, "[]byte{", NL>>
    \o StrJoin([i \in 1..Len(txt) |-> <<GenerateBitshift(txt[i])>>], <<",", NL>>)
    \o <<",", NL, "},", NL, ")}">>

\* lines 229-236: the split at the end of the import block (1-based)
ImportEnd(s) ==
    LET imports == Index(s, Str("import ("))
        endimports == Index(SubSeq(s, imports, Len(s)), <<")">>)
    IN imports + endimports - 1

RECURSIVE NextTick(_, _, _)
\* the nearest v after position i on the same line (the dot matches no newline); 0 if none
NextTick(s, v, i) ==
    IF i >= Len(s) \/ s[i + 1] = NL THEN 0
    ELSE IF s[i + 1] = v THEN i + 1
    ELSE NextTick(s, v, i + 1)

RECURSIVE FindLiteralsFrom(_, _, _)
FindLiteralsFrom(s, v, i) ==
    IF i > Len(s) THEN <<>>
    ELSE IF s[i] = v /\ NextTick(s, v, i) # 0
         THEN LET q == NextTick(s, v, i)
              IN <<SubSeq(s, i, q)>> \o FindLiteralsFrom(s, v, q + 1)
         ELSE FindLiteralsFrom(s, v, i + 1)

\* regexp.MustCompile(v + ".*?" + v).FindAllString(body, -1)
FindLiterals(s, v) == FindLiteralsFrom(s, v, 1)

tickTypes == <<BT, SQ, DQ>>

\* line 250
Accepted(w) == Len(w) > 2 /\ ~Contains(w, <<BS>>)

\* lines 243-248: the deduplicated literals of the three delimiter styles, in order
LiteralsOf(b) ==
    Flatten([t \in 1..Len(tickTypes) |-> Unique(FindLiterals(b, tickTypes[t]))])

\* A bug variant: an entry already present is registered again.
RegisterAlways(S, ws, nm) ==
    LET new == {ws[i] : i \in {j \in 1..Len(ws) : Accepted(ws[j])}}
    IN [k \in DOMAIN S \cup new |->
          IF k \in new THEN <<SubSeq(k, 2, Len(k) - 1), nm[k]>> ELSE S[k]]

\* lines 248-258: the registry after the literals ws, nm[w] being the name
\* GenerateTyposquatName returns for w
Register(S, ws, nm) ==
    LET new == {ws[i] : i \in {j \in 1..Len(ws) :
                                  Accepted(ws[j]) /\ ws[j] \notin DOMAIN S}}
    IN [k \in DOMAIN S \cup new |->
          IF k \in new THEN <<SubSeq(k, 2, Len(k) - 1), nm[k]>> ELSE S[k]]

\* line 265
IsLeave(w) == Contains(Str(w[2]), Str("leave"))

\* A bug variant: only the first call site of each entry is rewritten.
SubstituteFirstOnly(b, k, w) ==
    IF ~IsLeave(w)
    THEN ReplaceFirstOnly(b, k, <<w[2], "(", ")">>)
    ELSE ReplaceFirstOnly(b, k, w[1])

\* lines 265-270: the body after the entry k -> w
Substitute(b, k, w) ==
    IF ~IsLeave(w)
    THEN ReplaceAll(b, k, <<w[2], "(", ")">>)
    ELSE ReplaceAll(b, k, w[1])

\* A bug variant: the sentinel is not looked at.
AppendAccessorAlways(fs, w) == fs \o GenerateStringFunc(w[1], w[2]) \o <<NL>>

\* lines 265-266: funcString after the entry w
AppendAccessor(fs, w) ==
    IF ~IsLeave(w) THEN fs \o GenerateStringFunc(w[1], w[2]) \o <<NL>> ELSE fs

Header == Str("import (\"fmt\")")

BodyChunks ==
    { <<DQ, "a", DQ>>, <<BT, "a", BT>>, <<DQ, "A", DQ>>, <<DQ>>, <<BS, DQ>> }

StringSources(n) == {Header \o Flatten(cs) : cs \in SeqsUpTo(BodyChunks, n)}

\* an entry added by hand with the "leave" sentinel (line 264): the backquoted
\* literal is to stay in the text as it is
ManualSecrets == [k \in {<<BT, "a", BT>>} |-> <<<<BT, "a", BT>>, "<leave>">>]

InitStringsOf(n) ==
    /\ pc = "os_call"
    /\ input \in StringSources(n)
    /\ orig = input
    /\ words = <<>> /\ idx = 0 /\ renamed = <<>>
    /\ fresh = {} /\ fedBack = FALSE
    /\ Secrets \in {<<>>, ManualSecrets}
    /\ importSection = <<>> /\ body = <<>>
    /\ funcString = <<>> /\ todo = {} /\ output = <<>> /\ pass = 1
    /\ lines = <<>> /\ file = <<>> /\ sedCalls = <<>> /\ result = TRUE

InitStrings == InitStringsOf(MaxPassChunks)

InitStringsOnce == InitStringsOf(MaxBodyChunks)

\* lines 229-259: split, find the literals, register the new ones
OS_Extract ==
    /\ pc = "os_call"
    /\ LET cut == ImportEnd(input)
           b == SubSeq(input, cut + 1, Len(input))
           ws == LiteralsOf(b)
       IN /\ importSection' = SubSeq(input, 1, cut)
          /\ body' = b
          /\ words' = ws
          /\ \E nm \in [Range(ws) -> GenerateTyposquatName] :
                Secrets' = Register(Secrets, ws, nm)
          /\ fresh' = DOMAIN Secrets' \ DOMAIN Secrets
          /\ todo' = DOMAIN Secrets'
    /\ funcString' = <<>>
    /\ pc' = "os_subst"
    /\ UNCHANGED <<input, orig, idx, renamed, fedBack, output, pass, lines, file,
                   sedCalls, result>>

\* lines 263-271: one iteration of the range over the map, in map order
OS_Subst ==
    /\ pc = "os_subst"
    /\ \E k \in todo :
          /\ funcString' = AppendAccessor(funcString, Secrets[k])
          /\ body' = Substitute(body, k, Secrets[k])
          /\ todo' = todo \ {k}
    /\ UNCHANGED <<pc, input, orig, words, idx, renamed, fresh, fedBack, Secrets,
                   importSection, output, pass, lines, file, sedCalls, result>>

\* lines 275-278
OS_Return ==
    /\ pc = "os_subst"
    /\ todo = {}
    /\ output' = importSection \o body \o <<NL>> \o funcString
    /\ pc' = "os_done"
    /\ UNCHANGED <<input, orig, words, idx, renamed, fresh, fedBack, Secrets,
                   importSection, body, funcString, todo, pass, lines, file,
                   sedCalls, result>>

\* the next call in the same process: on the text just returned, or on the
\* same source again
OS_Call ==
    /\ pc = "os_done"
    /\ pass < MaxPasses
    /\ \E again \in BOOLEAN :
          /\ input' = IF again THEN orig ELSE output
          /\ fedBack' = ~again
    /\ orig' = input'
    /\ pass' = pass + 1
    /\ pc' = "os_call"
    /\ words' = <<>> /\ fresh' = {} /\ importSection' = <<>> /\ body' = <<>>
    /\ funcString' = <<>> /\ output' = <<>>
    /\ UNCHANGED <<idx, renamed, Secrets, todo, lines, file, sedCalls, result>>

NextStrings == OS_Extract \/ OS_Subst \/ OS_Return \/ OS_Call

\* several passes in one process
SpecStrings == InitStrings /\ [][NextStrings]_vars

NextStringsOnce == OS_Extract \/ OS_Subst \/ OS_Return

\* one pass
SpecStringsOnce == InitStringsOnce /\ [][NextStringsOnce]_vars

----------------------------------------------------------------------------
(* Claims about ObfuscateStrings *)

RECURSIVE CountFrom(_, _, _)
\* the number of non-overlapping occurrences of p in s from position i on
CountFrom(s, p, i) ==
    IF i > Len(s) \/ p = <<>> THEN 0
    ELSE IF HasPrefixAt(s, p, i) THEN 1 + CountFrom(s, p, i + Len(p))
    ELSE CountFrom(s, p, i + 1)

CountOcc(s, p) == CountFrom(s, p, 1)

\* C2: across the passes of one process an entry of Secrets is never removed
\* and never changes its plaintext or its accessor name: a pass that meets a
\* registered rawToken again keeps the entry it has.
C2_RegistryStable ==
    [][\A k \in DOMAIN Secrets :
          k \in DOMAIN Secrets' /\ Secrets'[k] = Secrets[k]]_vars

\* a second pass has met a literal that an earlier pass registered
C2_Witness ==
    /\ pass = 2
    /\ pc = "os_subst"
    /\ \E i \in 1..Len(words) :
          /\ Accepted(words[i])
          /\ words[i] \notin fresh
          /\ ~IsLeave(Secrets[words[i]])

\* C3: a literal of the body that holds a backslash or has no content is not
\* registered and its text is still in the returned body.
C3_SkippedLiteralUntouched ==
    pc = "os_done" =>
        \A i \in 1..Len(words) :
            ~Accepted(words[i]) =>
                /\ words[i] \notin DOMAIN Secrets
                /\ Contains(body, words[i])

\* the call site that replaces the rawToken of entry w
CallSite(w) == IF IsLeave(w) THEN w[1] ELSE <<w[2], "(", ")">>

Appended == SubSeq(output, Len(importSection) + Len(body) + 2, Len(output))

IsEncoded(a) == Len(a) >= 2 /\ SubSeq(a, 1, 1) = "~"

RECURSIVE DecodeFrom(_, _)
\* the bytes an accessor function rebuilds, read back from its text
DecodeFrom(t, j) ==
    IF j <= Len(t) /\ IsEncoded(t[j])
    THEN <<SubSeq(t[j], 2, Len(t[j]))>> \o DecodeFrom(t, j + 3)
    ELSE <<>>

\* <<plaintext, name>> of the function definition that starts at position i
DefAt(t, i) == <<DecodeFrom(t, i + 6), t[i + 1]>>

\* C10: after the body the returned text holds exactly one accessor function
\* definition for each entry that is not a "leave" entry, and none for a
\* "leave" entry, in every pass.
C10_OneAccessorPerEntry ==
    pc = "os_done" =>
        LET defs == {i \in 1..Len(Appended) : Appended[i] = "func "}
            normal == {k \in DOMAIN Secrets : ~IsLeave(Secrets[k])}
        IN /\ Cardinality(defs) = Cardinality(normal)
           /\ \A k \in normal :
                 Cardinality({i \in defs : DefAt(Appended, i) = Secrets[k]})
                     = Cardinality({j \in normal : Secrets[j] = Secrets[k]})
           /\ \A k \in DOMAIN Secrets \ normal :
                 \A i \in defs : Appended[i + 1] # Secrets[k][2]

\* a pass over the text an earlier pass returned, the registry holding a
\* normal and a "leave" entry
C10_Witness ==
    /\ pc = "os_done"
    /\ fedBack
    /\ \E k \in DOMAIN Secrets : IsLeave(Secrets[k])
    /\ \E k \in DOMAIN Secrets : ~IsLeave(Secrets[k])

----------------------------------------------------------------------------
(* GenerateRandomAntiDebug *)

MaxLineChunks == 3     \* chunks of the text given to GenerateRandomAntiDebug
MaxDraws == 1          \* iterations of the shuffle whose draw is left open

\* lines 310-319; the text of a check routine is one atom of the line
randomChecks ==
    << "obDependencyCheck()", "obEnvArgsDetect()", "obParentTracerDetect()",
       "obParentCmdLineDetect()", "obEnvDetect()", "obEnvParentDetect() ",
       "obLdPreloadDetect()", "obParentDetect()" >>

\* line 322
Marker == Str("// OB_CHECK")

RECURSIVE SplitFrom(_, _, _)
SplitFrom(s, i, cur) ==
    IF i > Len(s) THEN <<cur>>
    ELSE IF s[i] = NL THEN <<cur>> \o SplitFrom(s, i + 1, <<>>)
    ELSE SplitFrom(s, i + 1, Append(cur, s[i]))

\* strings.Split(input, "\n")
SplitLines(s) == SplitFrom(s, 1, <<>>)

\* strings.Join(lines, "\n")
JoinLines(ls) == StrJoin(ls, <<NL>>)

Swap(p, i, j) == [p EXCEPT ![i] = p[j], ![j] = p[i]]

RECURSIVE FisherYates(_, _, _)
\* rand.Shuffle: for i from the last index down, swap i with a drawn j <= i.
\* Only the first d draws are left open; the later ones draw j = i.
FisherYates(p, i, d) ==
    IF i <= 1 \/ d = 0 THEN {p}
    ELSE UNION {FisherYates(Swap(p, i, j), i - 1, d - 1) : j \in 1..i}

\* ShuffleSlice(in): the orders one call can return
ShuffleSlice(in) == FisherYates(in, Len(in), MaxDraws)

\* A bug variant: the line gets checkString, the checks joined by "||".
CheckLine(vs) ==
    Flatten([j \in 1..Len(vs) |->
        IF j # Len(randomChecks) THEN <<vs[j], "||">> ELSE <<vs[j]>>])

\* lines 323-335: threadString for the order vs
ThreadLine(vs) ==
    Flatten([j \in 1..Len(vs) |-> <<"go ", vs[j], ";">>])

LineChunks == {Marker, Str("x"), <<NL>>, Str("/")}

LineSources == {Flatten(cs) : cs \in SeqsUpTo(LineChunks, MaxLineChunks)}

InitAntiDebug ==
    /\ pc = "ad_call"
    /\ input \in LineSources
    /\ orig = input
    /\ Idle

\* line 309
AD_Split ==
    /\ pc = "ad_call"
    /\ lines' = SplitLines(input)
    /\ idx' = 1
    /\ pc' = "ad_loop"
    /\ UNCHANGED <<input, orig, words, renamed, fresh, fedBack, Secrets,
                   importSection, body, funcString, todo, output, pass, file,
                   sedCalls, result>>

\* lines 321-337: one iteration on a line that holds the marker
AD_Rewrite ==
    /\ pc = "ad_loop"
    /\ idx <= Len(lines)
    /\ Contains(lines[idx], Marker)
    /\ \E vs \in ShuffleSlice(randomChecks) :
          lines' = [lines EXCEPT ![idx] = ThreadLine(vs)]
    /\ idx' = idx + 1
    /\ UNCHANGED <<pc, input, orig, words, renamed, fresh, fedBack, Secrets,
                   importSection, body, funcString, todo, output, pass, file,
                   sedCalls, result>>

\* lines 321-337: one iteration on a line without the marker
AD_Keep ==
    /\ pc = "ad_loop"
    /\ idx <= Len(lines)
    /\ ~Contains(lines[idx], Marker)
    /\ idx' = idx + 1
    /\ UNCHANGED <<pc, input, orig, words, renamed, fresh, fedBack, Secrets,
                   importSection, body, funcString, todo, output, pass, lines,
                   file, sedCalls, result>>

\* line 339
AD_Return ==
    /\ pc = "ad_loop"
    /\ idx > Len(lines)
    /\ output' = JoinLines(lines)
    /\ pc' = "ad_done"
    /\ UNCHANGED <<input, orig, words, idx, renamed, fresh, fedBack, Secrets,
                   importSection, body, funcString, todo, pass, lines, file,
                   sedCalls, result>>

NextAntiDebug == AD_Split \/ AD_Rewrite \/ AD_Keep \/ AD_Return

SpecAntiDebug == InitAntiDebug /\ [][NextAntiDebug]_vars

----------------------------------------------------------------------------
(* Claims about GenerateRandomAntiDebug *)

Launch(r) == <<"go ", r, ";">>

RECURSIVE SumLen(_)
SumLen(ss) == IF ss = <<>> THEN 0 ELSE Len(Head(ss)) + SumLen(Tail(ss))

\* the line is the eight launch statements, each once, in some order
IsLaunchLine(l) ==
    /\ Len(l) = SumLen([j \in 1..Len(randomChecks) |-> Launch(randomChecks[j])])
    /\ CountOcc(l, <<"go ">>) = Len(randomChecks)
    /\ \A j \in 1..Len(randomChecks) : CountOcc(l, Launch(randomChecks[j])) = 1

\* C4: the returned text has the lines of the input in the same number and
\* order; a line without the marker is unchanged, a line with the marker is
\* exactly the eight launch statements, one for each check routine.
C4_MarkerLinesRewritten ==
    pc = "ad_done" =>
        LET inl == SplitLines(orig)
            outl == SplitLines(output)
        IN /\ Len(outl) = Len(inl)
           /\ \A i \in 1..Len(inl) :
                 IF Contains(inl[i], Marker)
                 THEN IsLaunchLine(outl[i])
                 ELSE outl[i] = inl[i]

\* a text with a marker line, rewritten in another order than the fixed one,
\* and a line of its own that is kept
C4_Witness ==
    /\ pc = "ad_done"
    /\ \E i \in 1..Len(lines) :
          /\ Contains(SplitLines(orig)[i], Marker)
          /\ lines[i] # ThreadLine(randomChecks)
    /\ \E i \in 1..Len(lines) :
          /\ ~Contains(SplitLines(orig)[i], Marker)
          /\ lines[i] # <<>>


----------------------------------------------------------------------------
(* StripUPXHeaders *)

MaxBinChunks == 2      \* chunks of the binary given to StripUPXHeaders

\* the byte 0x00
NUL == "0x00"

\* lines 71-88: the fragments, each byte written as its character
header ==
    << Str("Info: This"), Str(" file is p"), Str("acked with"),
       Str(" the UPX e"), Str("xecutable "), Str("packer htt"),
       Str("p://upx.sf"), Str(".net $") \o <<NL, NUL>> \o Str("$I"),
       Str("d: UPX 3.9"), Str("6 Copyrigh"), Str("t (C) 1996"),
       Str("-2020 the "), Str("UPX Team. "), Str("All Rights"),
       Str(" Reserved."), Str("UPX!") >>

\* the bytes rand.Read is taken to deliver: 0x00 and 0x55 ("U")
RandBytes == {NUL, "U"}

\* len(v) of a fragment written as `\xHH` per byte
EscapedLen(v) == 4 * Len(v)

\* lines 96-103: the number of bytes drawn until len(sedString) >= len(v)
DrawnBytes(v) ==
    CHOOSE n \in 0..Len(v) :
        /\ ~(4 * n < EscapedLen(v))
        /\ n = 0 \/ 4 * (n - 1) < EscapedLen(v)

\* sed -i s/v/r/g on the file
SedReplace(f, v, r) == ReplaceAll(f, v, r)

\* A bug variant: the loop goes on after a failed substitution.
AfterSedNoAbort(ok, i) == IF i < Len(header) THEN "upx_loop" ELSE "upx_done"

\* lines 106-111: where the function is after the substitution of fragment i
AfterSed(ok, i) ==
    IF ~ok THEN "upx_done"
    ELSE IF i < Len(header) THEN "upx_loop" ELSE "upx_done"

BinChunks == {Str("UPX!"), Str("PX!"), <<NUL>>, Str(" Reserved.")}

Binaries == {Flatten(cs) : cs \in SeqsUpTo(BinChunks, MaxBinChunks)}

InitUPX ==
    /\ pc = "upx_loop"
    /\ file \in Binaries
    /\ orig = file
    /\ input = <<>>
    /\ words = <<>> /\ idx = 1 /\ renamed = <<>>
    /\ fresh = {} /\ fedBack = FALSE
    /\ Secrets = <<>> /\ importSection = <<>> /\ body = <<>>
    /\ funcString = <<>> /\ todo = {} /\ output = <<>> /\ pass = 0
    /\ lines = <<>> /\ sedCalls = <<>> /\ result = TRUE

\* lines 97-100: a read of the random source fails while the replacement of
\* fragment idx is drawn
UPX_RandFail ==
    /\ pc = "upx_loop"
    /\ DrawnBytes(header[idx]) > 0
    /\ result' = FALSE
    /\ pc' = "upx_done"
    /\ UNCHANGED <<input, orig, words, idx, renamed, fresh, fedBack, Secrets,
                   importSection, body, funcString, todo, output, pass, lines,
                   file, sedCalls>>

\* lines 91-109: the replacement of fragment idx is drawn and sed is run.
\* A file without the fragment is the same for every replacement, so the
\* replacement is drawn only for a file that holds it.  A failed sed is
\* taken to leave the file as it was.
UPX_Sed ==
    /\ pc = "upx_loop"
    /\ LET v == header[idx]
       IN \E ok \in BOOLEAN :
             /\ IF Contains(file, v)
                THEN \E r \in [1..DrawnBytes(v) -> RandBytes] :
                        file' = IF ok THEN SedReplace(file, v, r) ELSE file
                ELSE file' = file
             /\ sedCalls' = Append(sedCalls, <<idx, ok>>)
             /\ result' = ok
             /\ pc' = AfterSed(ok, idx)
             /\ idx' = IF pc' = "upx_loop" THEN idx + 1 ELSE idx
    /\ UNCHANGED <<input, orig, words, renamed, fresh, fedBack, Secrets,
                   importSection, body, funcString, todo, output, pass, lines>>

NextUPX == UPX_RandFail \/ UPX_Sed

SpecUPX == InitUPX /\ [][NextUPX]_vars

----------------------------------------------------------------------------
(* Claims about StripUPXHeaders *)

\* C5: after StripUPXHeaders has returned true none of the fragments occurs
\* in the binary, whatever bytes were drawn, and the binary is as long as it
\* was.
C5_NoFragmentLeft ==
    (pc = "upx_done" /\ result) =>
        /\ \A i \in 1..Len(header) : ~Contains(file, header[i])
        /\ Len(file) = Len(orig)

\* C8: the fragments are taken one at a time in their order; the first
\* failure ends the scrub with false and no later fragment is substituted;
\* true is returned only when every fragment was substituted with success.
C8_FirstFailureAborts ==
    /\ \A j \in 1..Len(sedCalls) : sedCalls[j][1] = j
    /\ \A j \in 1..(Len(sedCalls) - 1) : sedCalls[j][2]
    /\ pc = "upx_done" =>
          /\ result <=> (/\ Len(sedCalls) = Len(header)
                         /\ \A j \in 1..Len(sedCalls) : sedCalls[j][2])
          /\ ~result => \A j \in 1..Len(sedCalls) : sedCalls[j][1] <= idx

\* the substitution of a fragment in the middle of the list has failed
C8_Witness ==
    /\ pc = "upx_done"
    /\ ~result
    /\ Len(sedCalls) > 1
    /\ Len(sedCalls) < Len(header)
    /\ ~sedCalls[Len(sedCalls)][2]

----------------------------------------------------------------------------
(* StripFile *)

MaxFileChunks == 2     \* chunks of the binary text given to StripFile

\* lines 24-62
extras ==
    << Str(".gopclntab"), Str(".go.buildinfo"), Str(".noptrdata"),
       Str(".noptrbss"), Str(".data"), Str(".rodata"), Str(".text"),
       Str(".itablink"), Str(".shstrtab"), Str(".data"), Str(".dynamic"),
       Str(".dynstr"), Str(".dynsym"), Str(".gnu.version_r"),
       Str(".gopclntab"), Str(".got.plt"), Str(".init_array"), Str(".interp"),
       Str(".itablink"), Str(".rela.dyn"), Str(".rela.plt"), Str(".tbss"),
       Str(".plt"), Str(".init"),
       Str("name"), Str("runtime"), Str("command"), Str("cmd"),
       Str("ptr"), Str("process"), Str("unicode"), Str("main"),
       Str("path"), Str("get"), Str("reflect"), Str("context"),
       Str("debug"), Str("fmt"), Str("sync"), Str("sort"),
       Str("size"), Str("heap"), Str("fatal"), Str("call"),
       Str("fixed"), Str("slice"), Str("bit"), Str("file"),
       Str("read"), Str("write"), Str("buffer"), Str("encrypt"),
       Str("decrypt"), Str("hash"), Str("state"),
       Str("external"), Str("internal"), Str("float"),
       Str("env"), Str("trace"), Str("pid") >>

\* the parameter launcherFile
launcherFile == Str("l.go")

\* ListImportsFromFile(launcherFile): the import lists the launcher may hold
ImportLists == {<<>>, <<Str("os/exec")>>, <<Str("fmt"), Str("os/exec")>>}

\* GenerateNullString(n): n bytes 0x00
GenerateNullString(n) == [i \in 1..n |-> NUL]

\* lines 147-155
RemovalSet(imports) == Unique(extras \o imports \o <<launcherFile>>)

\* A bug variant: the capitalized spelling is not looked for.
ScrubTokenLowerOnly(t, remove) ==
    ReplaceAll(t, remove, GenerateNullString(Len(remove)))

\* lines 167-169: the text after the token `remove`
ScrubToken(t, remove) ==
    LET newName == GenerateNullString(Len(remove))
    IN ReplaceAll(ReplaceAll(t, remove, newName), Title(remove), newName)

FileChunks ==
    { Str("pid"), Str("Pid"), Str("os/exec"), Str("Os/Exec"), Str("Os/exec"),
      Str(".got.plt"), Str(".Got.Plt"), Str("l.go"), Str("z") }

Files == {Flatten(cs) : cs \in SeqsUpTo(FileChunks, MaxFileChunks)}

InitStrip ==
    /\ pc = "sf_strip"
    /\ file \in Files
    /\ orig = file
    /\ input = <<>>
    /\ words = <<>> /\ idx = 0 /\ renamed = <<>>
    /\ fresh = {} /\ fedBack = FALSE
    /\ Secrets = <<>> /\ importSection = <<>> /\ body = <<>>
    /\ funcString = <<>> /\ todo = {} /\ output = <<>> /\ pass = 0
    /\ lines = <<>> /\ sedCalls = <<>> /\ result = TRUE

\* lines 120-142: strip fails
StripFile_StripFails ==
    /\ pc = "sf_strip"
    /\ result' = FALSE
    /\ pc' = "sf_done"
    /\ UNCHANGED <<input, orig, words, idx, renamed, fresh, fedBack, Secrets,
                   importSection, body, funcString, todo, output, pass, lines,
                   file, sedCalls>>

\* lines 120-163: strip succeeds (the sections it drops are no part of the
\* text model), the removal set is built and the file is read
StripFile_Read ==
    /\ pc = "sf_strip"
    /\ \E imports \in ImportLists : words' = RemovalSet(imports)
    /\ input' = file
    /\ idx' = 1
    /\ pc' = "sf_loop"
    /\ UNCHANGED <<orig, renamed, fresh, fedBack, Secrets, importSection, body,
                   funcString, todo, output, pass, lines, file, sedCalls, result>>

\* lines 158-161: the file cannot be read
StripFile_ReadFails ==
    /\ pc = "sf_strip"
    /\ \E imports \in ImportLists : words' = RemovalSet(imports)
    /\ result' = FALSE
    /\ pc' = "sf_done"
    /\ UNCHANGED <<input, orig, idx, renamed, fresh, fedBack, Secrets,
                   importSection, body, funcString, todo, output, pass, lines,
                   file, sedCalls>>

\* lines 165-170: one iteration
StripFile_Replace ==
    /\ pc = "sf_loop"
    /\ idx <= Len(words)
    /\ input' = ScrubToken(input, words[idx])
    /\ idx' = idx + 1
    /\ UNCHANGED <<pc, orig, words, renamed, fresh, fedBack, Secrets,
                   importSection, body, funcString, todo, output, pass, lines,
                   file, sedCalls, result>>

\* lines 172-175
StripFile_Write ==
    /\ pc = "sf_loop"
    /\ idx > Len(words)
    /\ \E ok \in BOOLEAN :
          /\ result' = ok
          /\ file' = IF ok THEN input ELSE file
    /\ pc' = "sf_done"
    /\ UNCHANGED <<input, orig, words, idx, renamed, fresh, fedBack, Secrets,
                   importSection, body, funcString, todo, output, pass, lines,
                   sedCalls>>

NextStrip == StripFile_StripFails \/ StripFile_Read \/ StripFile_ReadFails \/ StripFile_Replace \/ StripFile_Write

SpecStrip == InitStrip /\ [][NextStrip]_vars

----------------------------------------------------------------------------
(* Claims about StripFile *)

RECURSIVE CapFrom(_, _)
CapFrom(s, i) ==
    IF i > Len(s) THEN s
    ELSE IF ToUpper(s[i]) # s[i] THEN [s EXCEPT ![i] = ToUpper(s[i])]
    ELSE IF IsWordChar(s[i]) THEN s
    ELSE CapFrom(s, i + 1)

\* the token with its first letter, and no other, in upper case
CapitalizedFirstLetter(s) == CapFrom(s, 1)

====
